---- MODULE Spec2Model ----
(***************************************************************************)
(* Model of the indexing-and-retrieval pipeline of Rag_Chatbot:            *)
(* core/ingest.py (page extraction), core/chunker.py (chunker),            *)
(* core/storage.py (vector store), core/retriever.py (context assembler),  *)
(* core/qa_engine.py (answer generator) and the /query and /upload         *)
(* endpoints of backend/main.py.                                           *)
(*                                                                         *)
(* Python strings are sequences of one-character strings, so that          *)
(* formatting, joining, stripping and substring counting are computed.     *)
(***************************************************************************)
EXTENDS Integers, Sequences, FiniteSets, TLC

\* ------------------------------------------------------------------ bounds
\* Pages of the longest document (document d1).
MaxPage == 2
\* Longest chat history handed to generate_answer_with_history.
MaxHistory == 6
\* Longest page text handed to chunk_document.
MaxText == 5
\* Largest chunk_size chunk_document is called with.
MaxChunkSize == 4

\* ------------------------------------------------------- string primitives
Alphabet ==
    <<" ", "\n", "-", "0", "1", "2", "3", "4", "5", "6", "7", "8", "9", "_",
      "a", "b", "d", "f", ".">>

Code(c) == CHOOSE i \in 1..Len(Alphabet) : Alphabet[i] = c

IsSpace(c) == c \in {" ", "\n", "\t", "\r"}

RECURSIVE LStrip(_)
LStrip(s) == IF s # <<>> /\ IsSpace(Head(s)) THEN LStrip(Tail(s)) ELSE s

RECURSIVE RStrip(_)
RStrip(s) ==
    IF s # <<>> /\ IsSpace(s[Len(s)]) THEN RStrip(SubSeq(s, 1, Len(s) - 1)) ELSE s

\* str.strip()
Strip(s) == RStrip(LStrip(s))

\* The test `not context or context.strip() == ""`
IsBlank(s) == s = <<>> \/ Strip(s) = <<>>

\* s[i:].startswith(sub), for a 1-based position i
MatchAt(s, sub, i) ==
    i + Len(sub) - 1 <= Len(s) /\ \A k \in 1..Len(sub) : s[i + k - 1] = sub[k]

\* Of the match positions M of a pattern of width w, the number taken when
\* scanning left to right from position from and skipping past each match
RECURSIVE Greedy(_, _, _)
Greedy(M, w, from) ==
    LET R == {i \in M : i >= from}
    IN  IF R = {} THEN 0
        ELSE LET m == CHOOSE i \in R : \A j \in R : i <= j
             IN  1 + Greedy(M, w, m + w)

\* str.count(sub), for a non-empty sub: non-overlapping occurrences
Count(s, sub) ==
    LET M == {i \in 1..Len(s) : MatchAt(s, sub, i)}
    IN  Greedy(M, Len(sub), 1)

\* sep.join(parts)
RECURSIVE Join(_, _)
Join(sep, parts) ==
    IF parts = <<>> THEN <<>>
    ELSE IF Len(parts) = 1 THEN parts[1]
    ELSE parts[1] \o sep \o Join(sep, Tail(parts))

Digit(n) == <<"0", "1", "2", "3", "4", "5", "6", "7", "8", "9">>[n + 1]

\* str(n) for an integer n
RECURSIVE NatToStr(_)
NatToStr(n) == IF n < 10 THEN <<Digit(n)>> ELSE NatToStr(n \div 10) \o <<Digit(n % 10)>>

IntToStr(n) == IF n < 0 THEN <<"-">> \o NatToStr(-n) ELSE NatToStr(n)

RECURSIVE LexLess(_, _)
LexLess(s, t) ==
    IF t = <<>> THEN FALSE
    ELSE IF s = <<>> THEN TRUE
    ELSE IF Head(s) = Head(t) THEN LexLess(Tail(s), Tail(t))
    ELSE Code(Head(s)) < Code(Head(t))

\* Optional[str]: None, or a string (possibly the empty string)
None == [some |-> FALSE, val |-> <<>>]
Some(s) == [some |-> TRUE, val |-> s]

\* Python truthiness of an Optional[str]
Truthy(o) == o.some /\ o.val # <<>>

\* ------------------------------------------------------- fixed strings
\* The refusal returned for a blank context (qa_engine.py, main.py)
REFUSAL ==
    <<"I", " ", "d", "o", "n", "'", "t", " ", "h", "a", "v", "e", " ", "a",
      "n", "y", " ", "r", "e", "l", "e", "v", "a", "n", "t", " ", "i", "n",
      "f", "o", "r", "m", "a", "t", "i", "o", "n", " ", "t", "o", " ", "a",
      "n", "s", "w", "e", "r", " ", "t", "h", "i", "s", " ", "q", "u", "e",
      "s", "t", "i", "o", "n", ".", " ", "P", "l", "e", "a", "s", "e", " ",
      "m", "a", "k", "e", " ", "s", "u", "r", "e", " ", "d", "o", "c", "u",
      "m", "e", "n", "t", "s", " ", "h", "a", "v", "e", " ", "b", "e", "e",
      "n", " ", "i", "n", "g", "e", "s", "t", "e", "d", " ", "i", "n", "t",
      "o", " ", "t", "h", "e", " ", "s", "y", "s", "t", "e", "m", ".">>

\* The answer when the service returns no text
UNABLE ==
    <<"I", " ", "w", "a", "s", " ", "u", "n", "a", "b", "l", "e", " ", "t",
      "o", " ", "g", "e", "n", "e", "r", "a", "t", "e", " ", "a", " ", "r",
      "e", "s", "p", "o", "n", "s", "e", ".", " ", "P", "l", "e", "a", "s",
      "e", " ", "t", "r", "y", " ", "a", "g", "a", "i", "n", ".">>

\* The prefix of the answer when the service call raises
ERROR_PREFIX ==
    <<"E", "r", "r", "o", "r", " ", "g", "e", "n", "e", "r", "a", "t", "i",
      "n", "g", " ", "a", "n", "s", "w", "e", "r", ":", " ">>

SYSTEM_PROMPT ==
    <<"Y", "o", "u", " ", "a", "r", "e", " ", "a", " ", "h", "e", "l", "p",
      "f", "u", "l", " ", "a", "s", "s", "i", "s", "t", "a", "n", "t", ".",
      " ", "A", "n", "s", "w", "e", "r", " ", "t", "h", "e", " ", "q", "u",
      "e", "s", "t", "i", "o", "n", " ", "O", "N", "L", "Y", " ", "u", "s",
      "i", "n", "g", " ", "t", "h", "e", " ", "p", "r", "o", "v", "i", "d",
      "e", "d", " ", "c", "o", "n", "t", "e", "x", "t", ".", " ", "I", "f",
      " ", "t", "h", "e", " ", "a", "n", "s", "w", "e", "r", " ", "i", "s",
      "n", "'", "t", " ", "t", "h", "e", "r", "e", ",", " ", "s", "a", "y",
      " ", "y", "o", "u", " ", "d", "o", "n", "'", "t", " ", "k", "n", "o",
      "w", ".", " ", "A", "l", "w", "a", "y", "s", " ", "c", "i", "t", "e",
      " ", "t", "h", "e", " ", "p", "a", "g", "e", " ", "n", "u", "m", "b",
      "e", "r", "s", " ", "u", "s", "e", "d", ".">>

\* The separator get_context joins the blocks with
SEPARATOR ==
    <<"\n", "\n", "-", "-", "-", "\n", "\n">>

\* The substring query_documents counts
DASHES ==
    <<"-", "-", "-">>

\* ------------------------------------------------------------------ inputs
DocIds == {<<"d", "1">>, <<"d", "2">>}
Pages == 1..MaxPage
Texts == {<<"a">>, <<"a", "-", "-", "-", "b">>}
QueryTexts == {<<"a">>, <<"b">>}

\* Chunk (models.py), with the identifier chunk_document gives it
ChunkId(doc, page, idx) == doc \o <<"_">> \o IntToStr(page) \o <<"_">> \o IntToStr(idx)

Chunk(doc, page, idx, text) ==
    [chunk_id |-> ChunkId(doc, page, idx), doc_id |-> doc,
     page_number |-> page, text |-> text]

\* The pages of each document: d1 has two pages, d2 one
PagesOf(doc) == IF doc = <<"d", "1">> THEN Pages ELSE {1}

ChunkKeys == {<<d, p>> \in DocIds \X Pages : p \in PagesOf(d)}

\* The pages in P in increasing order
RECURSIVE Ascending(_)
Ascending(P) ==
    IF P = {} THEN <<>>
    ELSE LET m == CHOOSE x \in P : \A y \in P : x <= y
         IN  <<m>> \o Ascending(P \ {m})

\* The chunk lists handed to save_chunks_to_db: the chunks of some pages of
\* one document in page order, one chunk per page
BatchOf(doc, P, textOf) ==
    LET order == Ascending(P)
    IN  [i \in 1..Len(order) |-> Chunk(doc, order[i], 0, textOf[order[i]])]

BatchesOf(doc) ==
    {BatchOf(doc, P, textOf) : P \in SUBSET PagesOf(doc), textOf \in [Pages -> Texts]}

\* doc_metadata of each document: d1 is saved with its filename, d2 with a
\* doc_metadata that has no 'filename' key
MetadataOf(doc) == IF doc = <<"d", "1">> THEN Some(<<"f">>) ELSE None

Unknown == <<"u", "n", "k", "n", "o", "w", "n">>

\* ------------------------------------------------------ embedding function
\* Unit vectors (normalize_embeddings = True)
UnitVectors == << <<1, 0>>, <<0, 1>>, <<-1, 0>>, <<0, -1>> >>

RECURSIVE CodeSum(_)
CodeSum(s) == IF s = <<>> THEN 0 ELSE Code(Head(s)) + CodeSum(Tail(s))

\* The embedding model: a fixed map from text to a unit vector
EmbedText(t) == UnitVectors[(CodeSum(t) % Len(UnitVectors)) + 1]

embed_query(t) == EmbedText(t)

\* embed_documents(texts): failAt = 0 succeeds; failAt = k raises while the
\* k-th text is embedded (the vectors of the texts before it are dropped)
embed_documents(texts, failAt) ==
    IF failAt = 0
    THEN [raised |-> FALSE, value |-> [i \in 1..Len(texts) |-> EmbedText(texts[i])]]
    ELSE [raised |-> TRUE, value |-> <<>>]

\* ------------------------------------------------------------------- state
VARIABLES
    collection,  \* the "documents" collection: chunk id -> stored record
    last,        \* the call that returned last: its arguments and its outcome
    gcm,         \* a get_context_with_metadata call between its two queries
    deleted      \* the deletes that returned True, each with the number of
                 \* records it removed, for the documents not upserted since

vars == <<collection, last, gcm, deleted>>

Ids(coll) == DOMAIN coll

\* No record of the collection belongs to document doc_id
NoRecords(coll, doc_id) == \A id \in Ids(coll) : coll[id].metadata.doc_id # doc_id

\* ------------------------------------------------- the collection (ChromaDB)
HasDuplicates(seq) == \E i, j \in 1..Len(seq) : i < j /\ seq[i] = seq[j]

\* collection.add: a batch that repeats an id is rejected; an id that is
\* already stored is never overwritten: the release either skips that record
\* (dup = "ignore") or rejects the batch (dup = "raise")
CollectionAdd(coll, ids, documents, embeddings, metadatas, dup) ==
    LET n == Len(ids)
        fresh == {i \in 1..n : ids[i] \notin Ids(coll)}
        Rec(i) == [document |-> documents[i], embedding |-> embeddings[i],
                   metadata |-> metadatas[i]]
    IN  IF HasDuplicates(ids) THEN [raised |-> TRUE, coll |-> coll]
        ELSE IF fresh # 1..n /\ dup = "raise" THEN [raised |-> TRUE, coll |-> coll]
        ELSE [raised |-> FALSE,
              coll |-> [id \in Ids(coll) \cup {ids[i] : i \in fresh} |->
                          IF id \in Ids(coll) THEN coll[id]
                          ELSE Rec(CHOOSE i \in fresh : ids[i] = id)]]

\* Squared L2, the metric of a collection created without "hnsw:space"
Distance(u, v) == (u[1] - v[1]) * (u[1] - v[1]) + (u[2] - v[2]) * (u[2] - v[2])

\* The records a where filter admits
Matching(coll, where) ==
    IF where.some THEN {id \in Ids(coll) : coll[id].metadata.doc_id = where.val}
    ELSE Ids(coll)

\* Nearest first; records at the same distance in id order
Nearer(coll, q, a, b) ==
    LET da == Distance(q, coll[a].embedding)
        db == Distance(q, coll[b].embedding)
    IN  da < db \/ (da = db /\ LexLess(a, b))

RECURSIVE Ranked(_, _, _)
Ranked(coll, q, S) ==
    IF S = {} THEN <<>>
    ELSE LET best == CHOOSE a \in S : \A b \in S \ {a} : Nearer(coll, q, a, b)
         IN  <<best>> \o Ranked(coll, q, S \ {best})

\* A faulty variant: the store hands back one item more than was asked for
Take_OneMore(seq, n) == SubSeq(seq, 1, IF n + 1 < Len(seq) THEN n + 1 ELSE Len(seq))

Take(seq, n) == SubSeq(seq, 1, IF n < Len(seq) THEN n ELSE Len(seq))

\* collection.query(query_embeddings=[q], n_results, where, include=...):
\* results["documents"][0], results["metadatas"][0], results["distances"][0]
CollectionQuery(coll, q, n_results, where) ==
    LET ids == Take(Ranked(coll, q, Matching(coll, where)), n_results)
    IN  [ids |-> ids,
         documents |-> [i \in 1..Len(ids) |-> coll[ids[i]].document],
         metadatas |-> [i \in 1..Len(ids) |-> coll[ids[i]].metadata],
         distances |-> [i \in 1..Len(ids) |-> Distance(q, coll[ids[i]].embedding)]]

\* A faulty variant: the delete addresses records by id instead of by metadata
CollectionDelete_ByIds(coll, doc_id) ==
    [id \in {x \in Ids(coll) : x # doc_id} |-> coll[id]]

\* collection.delete(where={"doc_id": doc_id})
CollectionDelete(coll, doc_id) ==
    [id \in {x \in Ids(coll) : coll[x].metadata.doc_id # doc_id} |-> coll[id]]

\* ------------------------------------------------------- core/storage.py
\* The metadata map stored with a chunk
ChunkMetadata(chunk, doc_metadata) ==
    [doc_id |-> chunk.doc_id, page_number |-> chunk.page_number,
     filename |-> IF doc_metadata.some THEN doc_metadata.val ELSE Unknown]

\* A faulty variant: each chunk is embedded and added in turn, so the chunks
\* before an embedding failure are already persisted when it is raised
save_chunks_one_by_one(coll, chunks, doc_metadata, failAt, dup) ==
    LET n == Len(chunks)
        done == IF failAt = 0 THEN n ELSE failAt - 1
        ids == [i \in 1..done |-> chunks[i].chunk_id]
        documents == [i \in 1..done |-> chunks[i].text]
        metadatas == [i \in 1..done |-> ChunkMetadata(chunks[i], doc_metadata)]
        added == CollectionAdd(coll, ids, documents,
                               [i \in 1..done |-> EmbedText(documents[i])],
                               metadatas, dup)
    IN  IF failAt # 0
        THEN [raised |-> "embedding", ret |-> 0, coll |-> added.coll,
              embedded |-> failAt, embed_calls |-> failAt, add_calls |-> failAt - 1]
        ELSE IF added.raised
        THEN [raised |-> "storage", ret |-> 0, coll |-> coll,
              embedded |-> n, embed_calls |-> n, add_calls |-> n]
        ELSE [raised |-> "none", ret |-> n, coll |-> added.coll,
              embedded |-> n, embed_calls |-> n, add_calls |-> n]

\* The body of save_chunks_to_db after its guard: one embed_documents call
\* for the whole batch, then one collection.add
SaveBatch(coll, chunks, doc_metadata, failAt, dup) ==
    LET n == Len(chunks)
        ids == [i \in 1..n |-> chunks[i].chunk_id]
        documents == [i \in 1..n |-> chunks[i].text]
        metadatas == [i \in 1..n |-> ChunkMetadata(chunks[i], doc_metadata)]
        emb == embed_documents(documents, failAt)
        added == CollectionAdd(coll, ids, documents, emb.value, metadatas, dup)
    IN  IF emb.raised
        THEN [raised |-> "embedding", ret |-> 0, coll |-> coll,
              embedded |-> n, embed_calls |-> 1, add_calls |-> 0]
        ELSE IF added.raised
        THEN [raised |-> "storage", ret |-> 0, coll |-> coll,
              embedded |-> n, embed_calls |-> 1, add_calls |-> 1]
        ELSE [raised |-> "none", ret |-> n, coll |-> added.coll,
              embedded |-> n, embed_calls |-> 1, add_calls |-> 1]

\* A faulty variant: no guard for the empty chunk list, which then reaches the
\* embedding function and a collection.add that rejects an empty id list
save_chunks_to_db_unguarded(coll, chunks, doc_metadata, failAt, dup) ==
    IF chunks = <<>>
    THEN [raised |-> "storage", ret |-> 0, coll |-> coll,
          embedded |-> 0, embed_calls |-> 1, add_calls |-> 1]
    ELSE SaveBatch(coll, chunks, doc_metadata, failAt, dup)

\* save_chunks_to_db(chunks, doc_metadata) on collection coll.
\* raised: "none" (ret is the returned count), "embedding" or "storage";
\* embedded: the number of texts handed to the embedding function;
\* embed_calls, add_calls: the number of calls made to the embedding
\* function and to collection.add
save_chunks_to_db(coll, chunks, doc_metadata, failAt, dup) ==
    IF chunks = <<>>
    THEN [raised |-> "none", ret |-> 0, coll |-> coll,
          embedded |-> 0, embed_calls |-> 0, add_calls |-> 0]
    ELSE SaveBatch(coll, chunks, doc_metadata, failAt, dup)

\* A faulty variant: the where filter is never built
WhereFilter_Dropped(filter_doc_id) == None

\* A faulty variant: a filter is built for every filter_doc_id but None
WhereFilter_Literal(filter_doc_id) ==
    IF filter_doc_id.some THEN Some(filter_doc_id.val) ELSE None

\* The where filter query_collection builds from filter_doc_id
WhereFilter(filter_doc_id) ==
    IF Truthy(filter_doc_id) THEN Some(filter_doc_id.val) ELSE None

\* query_collection(query_text, n_results, filter_doc_id)
query_collection(coll, query_text, n_results, filter_doc_id) ==
    CollectionQuery(coll, embed_query(query_text), n_results, WhereFilter(filter_doc_id))

\* A faulty variant: the storage error of a delete is left to propagate
delete_document_chunks_propagating(coll, doc_id, storageFails) ==
    IF storageFails THEN [raised |-> TRUE, ret |-> FALSE, coll |-> coll]
    ELSE [raised |-> FALSE, ret |-> TRUE, coll |-> CollectionDelete(coll, doc_id)]

\* delete_document_chunks(doc_id): storageFails is the storage raising inside
\* the try block; raised is an exception leaving the function
delete_document_chunks(coll, doc_id, storageFails) ==
    IF storageFails THEN [raised |-> FALSE, ret |-> FALSE, coll |-> coll]
    ELSE [raised |-> FALSE, ret |-> TRUE, coll |-> CollectionDelete(coll, doc_id)]

\* ----------------------------------------------------- core/retriever.py
\* f"{similarity:.2%}" for similarity = 1 - distance (whole in this model)
FormatPercent(similarity) == IntToStr(100 * similarity) \o <<".", "0", "0", "%">>

\* "[Source: {filename}, Page {page_number}]" and the relevance suffix
Header(metadata, distance) ==
    <<"[", "S", "o", "u", "r", "c", "e", ":", " ">> \o metadata.filename
    \o <<",", " ", "P", "a", "g", "e", " ">> \o IntToStr(metadata.page_number)
    \o <<"]">>
    \o <<" ", "(", "R", "e", "l", "e", "v", "a", "n", "c", "e", ":", " ">>
    \o FormatPercent(1 - distance) \o <<")">>

\* A faulty variant: the chunk text is put in front of its header
Block_TextFirst(text, metadata, distance) ==
    text \o <<"\n">> \o Header(metadata, distance)

\* One rendered block: header, newline, chunk text
Block(text, metadata, distance) == Header(metadata, distance) \o <<"\n">> \o text

\* context_parts of get_context
ContextParts(results) ==
    [i \in 1..Len(results.documents) |->
        Block(results.documents[i], results.metadatas[i], results.distances[i])]

\* get_context(query, doc_id, n_results)
get_context(coll, query, doc_id, n_results) ==
    LET results == query_collection(coll, query, n_results, doc_id)
    IN  IF results.documents = <<>> THEN <<>>
        ELSE Join(SEPARATOR, ContextParts(results))

\* The chunks list of get_context_with_metadata
ChunkData(results) ==
    [i \in 1..Len(results.documents) |->
        [text |-> results.documents[i],
         page_number |-> results.metadatas[i].page_number,
         filename |-> results.metadatas[i].filename,
         doc_id |-> results.metadatas[i].doc_id,
         relevance |-> 1 - results.distances[i]]]

\* ----------------------------------------------------- core/qa_engine.py
\* What one call of the generation service does: it raises with a message,
\* or returns a response whose text is None or a string
GenOutcomes ==
    {[raises |-> TRUE, msg |-> <<"b">>, text |-> None]}
    \cup {[raises |-> FALSE, msg |-> <<>>, text |-> t] :
            t \in {None, Some(<<>>), Some(<<" ">>), Some(<<" ", "a", "\n">>)}}

\* The body both generators share once the prompt is built: the try block
\* around the single client.models.generate_content call
CallService(svc) ==
    IF svc.raises THEN ERROR_PREFIX \o svc.msg
    ELSE IF svc.text.some /\ svc.text.val # <<>> THEN Strip(svc.text.val)
    ELSE UNABLE

\* A faulty variant: a failed call of the generation service is tried once more
generate_answer_retry(question, context, svc) ==
    IF IsBlank(context)
    THEN [answer |-> REFUSAL, calls |-> 0, prompt |-> <<>>]
    ELSE [answer |-> CallService(svc), calls |-> IF svc.raises THEN 2 ELSE 1,
          prompt |-> <<SYSTEM_PROMPT, context, question>>]

\* generate_answer(question, context): the answer and the number of calls
\* made to the generation service
generate_answer(question, context, svc) ==
    IF IsBlank(context)
    THEN [answer |-> REFUSAL, calls |-> 0, prompt |-> <<>>]
    ELSE [answer |-> CallService(svc), calls |-> 1,
          prompt |-> <<SYSTEM_PROMPT, context, question>>]

\* chat_history[-5:]
LastTurns(chat_history) ==
    SubSeq(chat_history, IF Len(chat_history) > 5 THEN Len(chat_history) - 4 ELSE 1,
           Len(chat_history))

\* generate_answer_with_history(question, context, chat_history)
generate_answer_with_history(question, context, chat_history, svc) ==
    IF IsBlank(context)
    THEN [answer |-> REFUSAL, calls |-> 0, prompt |-> <<>>]
    ELSE [answer |-> CallService(svc), calls |-> 1,
          prompt |-> <<SYSTEM_PROMPT, context, LastTurns(chat_history), question>>]

\* -------------------------------------------------------- core/ingest.py
\* The loop of extract_pdf_pages over reader.pages: raw[i] is what
\* extract_text() gives for the i-th page, None or a string (a page whose
\* extraction raises is skipped like a page without text)
RECURSIVE ExtractFrom(_, _)
ExtractFrom(raw, page_number) ==
    IF page_number > Len(raw) THEN <<>>
    ELSE LET text == raw[page_number]
         IN  (IF ~text.some \/ Strip(text.val) = <<>> THEN <<>>
              ELSE <<[text |-> Strip(text.val), page_number |-> page_number]>>)
             \o ExtractFrom(raw, page_number + 1)

\* extract_pdf_pages(file_path), for a file that can be read
extract_pdf_pages(raw) == ExtractFrom(raw, 1)

\* ------------------------------------------------------- core/chunker.py
\* separators of the RecursiveCharacterTextSplitter
SEPARATORS == << <<"\n", "\n">>, <<"\n">>, <<".", " ">>, <<" ">>, <<>> >>

\* The positions at which re.split matches sep in s from position from on:
\* leftmost first, not overlapping
RECURSIVE Matches(_, _, _)
Matches(s, sep, from) ==
    LET R == {i \in from..Len(s) : MatchAt(s, sep, i)}
    IN  IF R = {} THEN <<>>
        ELSE LET m == CHOOSE i \in R : \A j \in R : i <= j
             IN  <<m>> \o Matches(s, sep, m + Len(sep))

NonEmpty(piece) == piece # <<>>

\* _split_text_with_regex(text, separator, keep_separator=True): the text cut
\* in front of every match, each separator kept at the start of its piece,
\* empty pieces dropped; the empty separator cuts between all characters
SplitWithRegex(text, separator) ==
    IF separator = <<>> THEN [i \in 1..Len(text) |-> <<text[i]>>]
    ELSE LET m == Matches(text, separator, 1)
             k == Len(m)
             pieces ==
                 [i \in 1..(k + 1) |->
                     SubSeq(text,
                            IF i = 1 THEN 1 ELSE m[i - 1],
                            IF i = k + 1 THEN Len(text) ELSE m[i] - 1)]
         IN  SelectSeq(pieces, NonEmpty)

\* The separator _split_text uses for text, the first of separators that is
\* empty or occurs in text, and the separators left for the pieces
RECURSIVE PickSeparator(_, _, _)
PickSeparator(text, separators, i) ==
    IF i > Len(separators)
    THEN [separator |-> separators[Len(separators)], new_separators |-> <<>>]
    ELSE IF separators[i] = <<>>
    THEN [separator |-> <<>>, new_separators |-> <<>>]
    ELSE IF \E p \in 1..Len(text) : MatchAt(text, separators[i], p)
    THEN [separator |-> separators[i],
          new_separators |-> SubSeq(separators, i + 1, Len(separators))]
    ELSE PickSeparator(text, separators, i + 1)

\* _join_docs(docs, separator): the joined text, stripped; no chunk when
\* nothing is left
JoinDocs(docs, separator) ==
    IF Strip(Join(separator, docs)) = <<>> THEN <<>>
    ELSE <<Strip(Join(separator, docs))>>

\* separator_len if len(current_doc) > k else 0
SepLen(current_doc, separator, k) ==
    IF Len(current_doc) > k THEN Len(separator) ELSE 0

\* The while loop of _merge_splits: pieces are dropped from the front of
\* current_doc until what is left fits the overlap and the next piece
RECURSIVE PopLoop(_, _, _, _, _, _)
PopLoop(current_doc, total, len, separator, chunk_size, chunk_overlap) ==
    IF \/ total > chunk_overlap
       \/ /\ total + len + SepLen(current_doc, separator, 0) > chunk_size
          /\ total > 0
    THEN PopLoop(Tail(current_doc),
                 total - (Len(Head(current_doc)) + SepLen(current_doc, separator, 1)),
                 len, separator, chunk_size, chunk_overlap)
    ELSE [current_doc |-> current_doc, total |-> total]

\* The for loop of _merge_splits from the i-th piece on
RECURSIVE MergeLoop(_, _, _, _, _, _, _, _)
MergeLoop(splits, i, docs, current_doc, total, separator, chunk_size, chunk_overlap) ==
    IF i > Len(splits) THEN docs \o JoinDocs(current_doc, separator)
    ELSE LET d == splits[i]
             len == Len(d)
             full == /\ total + len + SepLen(current_doc, separator, 0) > chunk_size
                     /\ current_doc # <<>>
             emitted == IF full THEN docs \o JoinDocs(current_doc, separator) ELSE docs
             kept == IF full
                     THEN PopLoop(current_doc, total, len, separator,
                                  chunk_size, chunk_overlap)
                     ELSE [current_doc |-> current_doc, total |-> total]
             appended == Append(kept.current_doc, d)
         IN  MergeLoop(splits, i + 1, emitted, appended,
                       kept.total + len + SepLen(appended, separator, 1),
                       separator, chunk_size, chunk_overlap)

\* A faulty variant: the pieces are joined into one chunk whatever their length
MergeSplits_Unbounded(splits, separator, chunk_size, chunk_overlap) ==
    JoinDocs(splits, separator)

\* _merge_splits(splits, separator)
MergeSplits(splits, separator, chunk_size, chunk_overlap) ==
    MergeLoop(splits, 1, <<>>, <<>>, 0, separator, chunk_size, chunk_overlap)
\* The pieces kept for merging, merged (the splitter keeps the separators in
\* the pieces, so they are joined with the empty string)
Flush(good_splits, chunk_size, chunk_overlap) ==
    IF good_splits = <<>> THEN <<>>
    ELSE MergeSplits(good_splits, <<>>, chunk_size, chunk_overlap)

RECURSIVE SplitText(_, _, _, _)
RECURSIVE SplitLoop(_, _, _, _, _, _, _)

\* The for loop of _split_text from the i-th piece on: a piece shorter than
\* chunk_size is kept for merging; a longer one is split with the separators
\* left, or taken as it is when none is left
SplitLoop(splits, i, good_splits, final_chunks, new_separators, chunk_size, chunk_overlap) ==
    IF i > Len(splits)
    THEN final_chunks \o Flush(good_splits, chunk_size, chunk_overlap)
    ELSE IF Len(splits[i]) < chunk_size
    THEN SplitLoop(splits, i + 1, Append(good_splits, splits[i]), final_chunks,
                   new_separators, chunk_size, chunk_overlap)
    ELSE SplitLoop(splits, i + 1, <<>>,
                   final_chunks \o Flush(good_splits, chunk_size, chunk_overlap)
                   \o (IF new_separators = <<>> THEN <<splits[i]>>
                       ELSE SplitText(splits[i], new_separators, chunk_size,
                                      chunk_overlap)),
                   new_separators, chunk_size, chunk_overlap)

\* RecursiveCharacterTextSplitter._split_text(text, separators)
SplitText(text, separators, chunk_size, chunk_overlap) ==
    LET pick == PickSeparator(text, separators, 1)
    IN  SplitLoop(SplitWithRegex(text, pick.separator), 1, <<>>, <<>>,
                  pick.new_separators, chunk_size, chunk_overlap)

\* text_splitter.split_text(page_text)
split_text(page_text, chunk_size, chunk_overlap) ==
    SplitText(page_text, SEPARATORS, chunk_size, chunk_overlap)

\* The chunks of one page, numbered from first on
PageChunks(page, doc_id, first, chunk_size, chunk_overlap) ==
    LET text_chunks == split_text(page.text, chunk_size, chunk_overlap)
    IN  [i \in 1..Len(text_chunks) |->
            Chunk(doc_id, page.page_number, first + i - 1, text_chunks[i])]

\* A faulty variant: the index runs on over the pages of the document
RECURSIVE ChunksRunningOn(_, _, _, _, _)
ChunksRunningOn(pages_data, doc_id, first, chunk_size, chunk_overlap) ==
    IF pages_data = <<>> THEN <<>>
    ELSE LET here == PageChunks(Head(pages_data), doc_id, first, chunk_size,
                                chunk_overlap)
         IN  here \o ChunksRunningOn(Tail(pages_data), doc_id, first + Len(here),
                                     chunk_size, chunk_overlap)

chunk_document_running_index(pages_data, doc_id, chunk_size, chunk_overlap) ==
    ChunksRunningOn(pages_data, doc_id, 0, chunk_size, chunk_overlap)

\* chunk_document(pages_data, doc_id, chunk_size, chunk_overlap)
RECURSIVE chunk_document(_, _, _, _)
chunk_document(pages_data, doc_id, chunk_size, chunk_overlap) ==
    IF pages_data = <<>> THEN <<>>
    ELSE PageChunks(Head(pages_data), doc_id, 0, chunk_size, chunk_overlap)
         \o chunk_document(Tail(pages_data), doc_id, chunk_size, chunk_overlap)

\* ------------------------------------------------------- backend/main.py
\* The n_results the /query endpoint asks for
QUERY_N_RESULTS == 5

\* A faulty variant: the endpoint goes on to count and generate without
\* looking at the context first
query_documents_unguarded(coll, question, doc_id, storageFails, svc) ==
    IF storageFails
    THEN [status |-> 500, answer |-> <<>>, sources_used |-> 0, calls |-> 0,
          context |-> <<>>]
    ELSE LET context == get_context(coll, question, doc_id, QUERY_N_RESULTS)
             gen == generate_answer(question, context, svc)
         IN  [status |-> 200, answer |-> gen.answer,
              sources_used |-> Count(context, DASHES) + 1,
              calls |-> gen.calls, context |-> context]

\* query_documents(request): storageFails is query_collection raising
query_documents(coll, question, doc_id, storageFails, svc) ==
    IF storageFails
    THEN [status |-> 500, answer |-> <<>>, sources_used |-> 0, calls |-> 0,
          context |-> <<>>]
    ELSE LET context == get_context(coll, question, doc_id, QUERY_N_RESULTS)
             gen == generate_answer(question, context, svc)
         IN  IF IsBlank(context)
             THEN [status |-> 200, answer |-> REFUSAL, sources_used |-> 0,
                   calls |-> 0, context |-> context]
             ELSE [status |-> 200, answer |-> gen.answer,
                   sources_used |-> Count(context, DASHES) + 1,
                   calls |-> gen.calls, context |-> context]

\* The defaults of chunk_document, which the /upload endpoint relies on
DEFAULT_CHUNK_SIZE == 1000
DEFAULT_CHUNK_OVERLAP == 200

\* str.lower(), on the characters of the modelled file names
Lower(s) ==
    [i \in 1..Len(s) |->
        IF s[i] = "P" THEN "p" ELSE IF s[i] = "D" THEN "d"
        ELSE IF s[i] = "F" THEN "f" ELSE s[i]]

\* s.endswith(suffix)
EndsWith(s, suffix) ==
    Len(s) >= Len(suffix) /\ SubSeq(s, Len(s) - Len(suffix) + 1, Len(s)) = suffix

PDF_SUFFIX == <<".", "p", "d", "f">>

\* The response of /upload: an error status, or 200 with chunks_count
UploadResult(status, coll, chunks_count, embed_calls, add_calls) ==
    [status |-> status, coll |-> coll, chunks_count |-> chunks_count,
     embed_calls |-> embed_calls, add_calls |-> add_calls]

\* The try block of upload_document. raw is the text of each page of the
\* uploaded file; readFails is the file write or the PDF reader raising
IngestUpload(coll, filename, doc_id, raw, readFails, indexed_to_kb, failAt) ==
    LET pages_data == extract_pdf_pages(raw)
        chunks == chunk_document(pages_data, doc_id, DEFAULT_CHUNK_SIZE,
                                 DEFAULT_CHUNK_OVERLAP)
        saved == save_chunks_to_db(coll, chunks, Some(filename), failAt, "raise")
    IN  IF readFails THEN UploadResult(500, coll, 0, 0, 0)
        ELSE IF pages_data = <<>> THEN UploadResult(400, coll, 0, 0, 0)
        ELSE IF ~indexed_to_kb THEN UploadResult(200, coll, 0, 0, 0)
        ELSE IF saved.raised # "none"
        THEN UploadResult(500, saved.coll, 0, saved.embed_calls, saved.add_calls)
        ELSE UploadResult(200, saved.coll, saved.ret, saved.embed_calls,
                          saved.add_calls)

\* A faulty variant: the file name is not validated
upload_document_any_name(coll, filename, doc_id, raw, readFails, indexed_to_kb, failAt) ==
    IngestUpload(coll, filename, doc_id, raw, readFails, indexed_to_kb, failAt)

\* upload_document(file, tags, indexed_to_kb); doc_id is the uuid4() drawn
upload_document(coll, filename, doc_id, raw, readFails, indexed_to_kb, failAt) ==
    IF ~EndsWith(Lower(filename), PDF_SUFFIX)
    THEN UploadResult(400, coll, 0, 0, 0)
    ELSE IngestUpload(coll, filename, doc_id, raw, readFails, indexed_to_kb, failAt)

\* ----------------------------------------------------------------- actions
\* The doc_id a caller passes as a filter: None, the empty string, a document
Filters == {None, Some(<<>>)} \cup {Some(d) : d \in DocIds}
NResults == {1, 2, QUERY_N_RESULTS}
ContextInputs == {<<>>, <<" ", "\n">>, <<"a">>}
Histories == {[i \in 1..n |-> i] : n \in 0..MaxHistory}

Idle == [pc |-> "idle"]

Init ==
    /\ collection = <<>>
    /\ last = [op |-> "init"]
    /\ gcm = Idle
    /\ deleted = {}

\* The document ids a chunk list writes
DocsOf(chunks) == {chunks[i].doc_id : i \in 1..Len(chunks)}

SaveChunksToDb(chunks, doc_metadata, failAt, dup) ==
    LET r == save_chunks_to_db(collection, chunks, doc_metadata, failAt, dup)
    IN  /\ collection' = r.coll
        /\ last' = [op |-> "save", chunks |-> chunks, doc_metadata |-> doc_metadata,
                    raised |-> r.raised, ret |-> r.ret, embedded |-> r.embedded,
                    embed_calls |-> r.embed_calls, failAt |-> failAt,
                    pre |-> collection]
        /\ deleted' = IF r.raised = "none"
                      THEN {e \in deleted : e.doc_id \notin DocsOf(chunks)}
                      ELSE deleted
        /\ UNCHANGED gcm

DeleteDocumentChunks(doc_id, storageFails) ==
    LET r == delete_document_chunks(collection, doc_id, storageFails)
    IN  /\ collection' = r.coll
        /\ last' = [op |-> "delete", doc_id |-> doc_id, ret |-> r.ret,
                    raised |-> r.raised, storageFails |-> storageFails,
                    pre |-> collection]
        /\ deleted' = IF r.ret
                      THEN {e \in deleted : e.doc_id # doc_id}
                           \cup {[doc_id |-> doc_id,
                                  removed |-> Cardinality(Ids(collection))
                                              - Cardinality(Ids(r.coll))]}
                      ELSE deleted
        /\ UNCHANGED gcm

GetContext(query, doc_id, n_results) ==
    /\ last' = [op |-> "get_context", query |-> query, doc_id |-> doc_id,
                n_results |-> n_results,
                results |-> query_collection(collection, query, n_results, doc_id),
                context |-> get_context(collection, query, doc_id, n_results)]
    /\ UNCHANGED <<collection, gcm, deleted>>

QueryDocuments(question, doc_id, storageFails, svc) ==
    LET r == query_documents(collection, question, doc_id, storageFails, svc)
    IN  /\ last' = [op |-> "query_documents", question |-> question,
                    doc_id |-> doc_id, svc |-> svc, status |-> r.status,
                    answer |-> r.answer, sources_used |-> r.sources_used,
                    calls |-> r.calls, context |-> r.context,
                    retrieved |-> IF storageFails THEN <<>>
                                  ELSE query_collection(collection, question,
                                           QUERY_N_RESULTS, doc_id).documents]
        /\ UNCHANGED <<collection, gcm, deleted>>

GenerateAnswer(question, context, svc) ==
    LET r == generate_answer(question, context, svc)
    IN  /\ last' = [op |-> "generate_answer", question |-> question,
                    context |-> context, svc |-> svc,
                    answer |-> r.answer, calls |-> r.calls]
        /\ UNCHANGED <<collection, gcm, deleted>>

GenerateAnswerWithHistory(question, context, chat_history, svc) ==
    LET r == generate_answer_with_history(question, context, chat_history, svc)
    IN  /\ last' = [op |-> "generate_answer_with_history", context |-> context,
                    chat_history |-> chat_history, svc |-> svc,
                    answer |-> r.answer, calls |-> r.calls,
                    prompt |-> r.prompt]
        /\ UNCHANGED <<collection, gcm, deleted>>

UploadDocument(filename, doc_id, raw, readFails, indexed_to_kb, failAt) ==
    LET r == upload_document(collection, filename, doc_id, raw, readFails,
                             indexed_to_kb, failAt)
    IN  /\ collection' = r.coll
        /\ last' = [op |-> "upload", filename |-> filename, doc_id |-> doc_id,
                    raw |-> raw, readFails |-> readFails,
                    indexed_to_kb |-> indexed_to_kb, failAt |-> failAt,
                    status |-> r.status, chunks_count |-> r.chunks_count,
                    embed_calls |-> r.embed_calls, add_calls |-> r.add_calls,
                    pre |-> collection]
        /\ deleted' = IF r.status = 200 /\ r.chunks_count > 0
                      THEN {e \in deleted : e.doc_id # doc_id}
                      ELSE deleted
        /\ UNCHANGED gcm

\* A chunk_document call that has been made and has not returned
ChunkCall(pages_data, doc_id, chunk_size, chunk_overlap) ==
    [op |-> "call_chunk_document", pages_data |-> pages_data, doc_id |-> doc_id,
     chunk_size |-> chunk_size, chunk_overlap |-> chunk_overlap]

\* The call returns its chunks
ChunkDocument ==
    /\ last.op = "call_chunk_document"
    /\ last' = [last EXCEPT !.op = "chunk_document"]
                @@ [chunks |-> chunk_document(last.pages_data, last.doc_id,
                                              last.chunk_size, last.chunk_overlap)]
    /\ UNCHANGED <<collection, gcm, deleted>>

\* What collection.add may do with the batch: the two releases differ only
\* when one of the ids is stored already
DupModes(chunks) ==
    IF \E i \in 1..Len(chunks) : chunks[i].chunk_id \in Ids(collection)
    THEN {"ignore", "raise"}
    ELSE {"ignore"}

\* The embedding function succeeds and the store decides, or the embedding
\* function raises at the first or at the last text of the batch
Save ==
    \E doc \in DocIds :
        \E chunks \in BatchesOf(doc) :
            \/ \E dup \in DupModes(chunks) :
                   SaveChunksToDb(chunks, MetadataOf(doc), 0, dup)
            \/ \E failAt \in {1, Len(chunks)} \cap (1..Len(chunks)) :
                   SaveChunksToDb(chunks, MetadataOf(doc), failAt, "ignore")

Delete == \E doc_id \in DocIds, storageFails \in BOOLEAN :
              DeleteDocumentChunks(doc_id, storageFails)

Retrieve == \E query \in QueryTexts, doc_id \in Filters, n_results \in NResults :
                GetContext(query, doc_id, n_results)

NoOutcome == [raises |-> FALSE, msg |-> <<>>, text |-> None]

Query ==
    \E question \in QueryTexts, doc_id \in Filters :
        \/ QueryDocuments(question, doc_id, TRUE, NoOutcome)
        \/ \E svc \in GenOutcomes : QueryDocuments(question, doc_id, FALSE, svc)

Generate == \E question \in QueryTexts, context \in ContextInputs, svc \in GenOutcomes :
                GenerateAnswer(question, context, svc)

GenerateWithHistory ==
    \E context \in ContextInputs, chat_history \in Histories, svc \in GenOutcomes :
        GenerateAnswerWithHistory(<<"a">>, context, chat_history, svc)

\* The names of uploaded files
Filenames ==
    {<<"f">>, <<"f", ".", "p", "d", "f">>, <<"f", ".", "P", "D", "F">>}

\* The page texts of uploaded files: no page, pages without text, pages with text
RawFiles ==
    {<<>>, <<None>>, <<Some(<<" ">>), None>>, <<Some(<<"a">>)>>,
     <<None, Some(<<" ", "a", " ", "b">>)>>, <<Some(<<"a">>), Some(<<"b">>)>>}

\* The identifiers uuid4() draws
NewDocIds == {<<"d", "3">>}

\* uuid4() draws an identifier no stored record carries. The file cannot be
\* read, or it is read and not indexed, or it is read and indexed, with an
\* embedding function that succeeds (failAt = 0) or raises (failAt = 1)
Upload ==
    \E filename \in Filenames, doc_id \in NewDocIds, raw \in RawFiles :
        /\ NoRecords(collection, doc_id)
        /\ \/ UploadDocument(filename, doc_id, raw, TRUE, TRUE, 0)
           \/ UploadDocument(filename, doc_id, raw, FALSE, FALSE, 0)
           \/ \E failAt \in {0, 1} :
                  UploadDocument(filename, doc_id, raw, FALSE, TRUE, failAt)

\* The page texts chunk_document is given: every string of up to MaxText
\* characters over a letter, the blank, the newline and the full stop
PageAlphabet == {"a", " ", "\n", "."}
PageTexts == UNION {[1..n -> PageAlphabet] : n \in 0..MaxText}

\* The text of the other pages of a document
OtherText == <<"a", " ", "a">>

\* The pages of a document that have text: one page, or all of them
PageSets == {{p} : p \in Pages} \cup {Pages}

\* pages_data: the pages in P in page order; the first carries text, the
\* others OtherText
PagesData(P, text) ==
    LET order == Ascending(P)
    IN  [i \in 1..Len(order) |->
            [text |-> IF i = 1 THEN text ELSE OtherText, page_number |-> order[i]]]

\* chunk_size >= 1 and 0 <= chunk_overlap <= chunk_size: the splitter
\* rejects every other pair when it is constructed
SplitterConfigs ==
    {c \in (1..MaxChunkSize) \X (0..MaxChunkSize) : c[2] <= c[1]}

\* Every chunk_document call of the bounded inputs, about to run
InitChunk ==
    /\ collection = <<>>
    /\ last \in {ChunkCall(PagesData(P, text), <<"d", "1">>, c[1], c[2]) :
                    P \in PageSets, text \in PageTexts, c \in SplitterConfigs}
    /\ gcm = Idle
    /\ deleted = {}

\* get_context_with_metadata(query, doc_id, n_results), first half: its own
\* query_collection call and the chunks list built from it. An empty result
\* returns at once.
GetContextWithMetadataQuery(query, doc_id, n_results) ==
    LET results == query_collection(collection, query, n_results, doc_id)
    IN  /\ gcm = Idle
        /\ IF results.documents = <<>>
           THEN /\ gcm' = Idle
                /\ last' = [op |-> "get_context_with_metadata", query |-> query,
                            doc_id |-> doc_id, n_results |-> n_results,
                            context |-> <<>>, chunks |-> <<>>, total_chunks |-> 0]
           ELSE /\ gcm' = [pc |-> "queried", query |-> query, doc_id |-> doc_id,
                           n_results |-> n_results, chunks |-> ChunkData(results)]
                /\ last' = [op |-> "gcm_query"]
        /\ UNCHANGED <<collection, deleted>>

\* Second half: the get_context call of the return statement, which queries
\* the collection again
GetContextWithMetadataReturn ==
    /\ gcm.pc = "queried"
    /\ last' = [op |-> "get_context_with_metadata", query |-> gcm.query,
                doc_id |-> gcm.doc_id, n_results |-> gcm.n_results,
                context |-> get_context(collection, gcm.query, gcm.doc_id,
                                        gcm.n_results),
                chunks |-> gcm.chunks, total_chunks |-> Len(gcm.chunks)]
    /\ gcm' = Idle
    /\ UNCHANGED <<collection, deleted>>

RetrieveWithMetadata ==
    \E query \in QueryTexts, doc_id \in Filters :
        GetContextWithMetadataQuery(query, doc_id, QUERY_N_RESULTS)

\* Another caller's upsert or delete on the shared collection, landing
\* between the two queries of a get_context_with_metadata call
Interleave == gcm.pc = "queried" /\ last.op = "gcm_query" /\ (Save \/ Delete)

\* The collections a run of saves leaves behind: one save per document
Seeds ==
    {save_chunks_to_db(
         save_chunks_to_db(<<>>, b1, MetadataOf(<<"d", "1">>), 0, "ignore").coll,
         b2, MetadataOf(<<"d", "2">>), 0, "ignore").coll :
       b1 \in BatchesOf(<<"d", "1">>), b2 \in BatchesOf(<<"d", "2">>)}

InitStored ==
    /\ collection \in Seeds
    /\ last = [op |-> "init"]
    /\ gcm = Idle
    /\ deleted = {}

\* The vector store and the context assembler
Next == Save \/ Delete \/ Retrieve

Spec == Init /\ [][Next]_vars

\* The /query endpoint over a stored collection
NextQuery == Query

SpecQuery == InitStored /\ [][NextQuery]_vars

\* The answer generator
NextAnswer == Generate \/ GenerateWithHistory

SpecAnswer == Init /\ [][NextAnswer]_vars

\* get_context_with_metadata next to a concurrent writer
NextConcurrent == RetrieveWithMetadata \/ Interleave \/ GetContextWithMetadataReturn

SpecConcurrent == InitStored /\ [][NextConcurrent]_vars

\* The /upload endpoint over a stored collection
NextUpload == Upload

SpecUpload == InitStored /\ [][NextUpload]_vars

\* The chunker
NextChunk == ChunkDocument

SpecChunk == InitChunk /\ [][NextChunk]_vars

\* ------------------------------------------------------------------ claims
Min(a, b) == IF a < b THEN a ELSE b

SavedOk == last.op = "save" /\ last.raised = "none" /\ last.chunks # <<>>

\* The record save_chunks_to_db builds for the i-th chunk of the last save is
\* the one stored under its chunk id
StoredAsGiven(i) ==
    LET c == last.chunks[i]
    IN  /\ c.chunk_id \in Ids(collection)
        /\ collection[c.chunk_id].document = c.text
        /\ collection[c.chunk_id].metadata = ChunkMetadata(c, last.doc_metadata)

\* C1: a save_chunks_to_db call that returns and whose chunk ids are (some of
\* them) already stored leaves, for each of its chunk ids, one record that
\* carries the text and metadata of this call, and when all its ids were
\* stored already the number of records has not grown.
C1_ReupsertOverwrites ==
    (SavedOk /\ \E i \in 1..Len(last.chunks) : last.chunks[i].chunk_id \in Ids(last.pre))
    => /\ \A i \in 1..Len(last.chunks) : StoredAsGiven(i)
       /\ (\A i \in 1..Len(last.chunks) : last.chunks[i].chunk_id \in Ids(last.pre))
          => Cardinality(Ids(collection)) = Cardinality(Ids(last.pre))

\* C2: after delete_document_chunks(d) returned True no record has doc_id d
\* and the records of the other documents are as they were; as long as no
\* save has written d since, no record has doc_id d and a query whose where
\* filter is d returns no result and an empty context.
C2_DeleteRemovesDocument ==
    /\ (last.op = "delete" /\ last.ret)
       => /\ NoRecords(collection, last.doc_id)
          /\ Ids(collection) =
               {id \in Ids(last.pre) : last.pre[id].metadata.doc_id # last.doc_id}
          /\ \A id \in Ids(collection) : collection[id] = last.pre[id]
    /\ \A e \in deleted :
          /\ NoRecords(collection, e.doc_id)
          /\ (last.op = "get_context" /\ WhereFilter(last.doc_id) = Some(e.doc_id))
             => last.results.documents = <<>> /\ last.context = <<>>

\* A query filtered to d1 comes back empty after a delete removed both
\* records of d1 and left a record of d2
C2_Witness ==
    /\ last.op = "get_context"
    /\ last.doc_id = Some(<<"d", "1">>)
    /\ last.context = <<>>
    /\ \E e \in deleted : e.doc_id = <<"d", "1">> /\ e.removed = 2
    /\ collection # <<>>

\* C4: a save_chunks_to_db call during which the embedding function raises
\* ends with that error and leaves the collection as it was before the call.
C4_EmbeddingFailureCommitsNothing ==
    (last.op = "save" /\ last.failAt # 0)
    => last.raised = "embedding" /\ collection = last.pre

\* The embedding function raised at the second chunk of a batch, on a
\* collection that held records
C4_Witness ==
    /\ last.op = "save"
    /\ last.failAt = 2
    /\ last.raised = "embedding"
    /\ last.pre # <<>>
    /\ last.chunks[1].chunk_id \notin Ids(last.pre)

\* C5: a save_chunks_to_db call that returns n for a non-empty chunk list has
\* n equal to the number of chunks, and the collection then holds, under each
\* chunk's id, the record with that chunk's text and metadata.
C5_CountMatchesStored ==
    SavedOk => /\ last.ret = Len(last.chunks)
               /\ \A i \in 1..Len(last.chunks) : StoredAsGiven(i)

\* C6: when query_collection builds a where filter from filter_doc_id (the
\* argument is a non-empty string) every returned item has that doc_id in its
\* metadata; otherwise the n_results nearest records of the whole collection
\* are returned.
C6_FilterRestrictsResults ==
    last.op = "get_context"
    => LET r == last.results
           q == embed_query(last.query)
       IN  /\ Truthy(last.doc_id)
              => \A i \in 1..Len(r.metadatas) : r.metadatas[i].doc_id = last.doc_id.val
           /\ ~Truthy(last.doc_id)
              => /\ Len(r.documents) = Min(last.n_results, Cardinality(Ids(collection)))
                 /\ \A id \in Ids(collection) \ {r.ids[i] : i \in 1..Len(r.ids)} :
                       \A i \in 1..Len(r.distances) :
                           r.distances[i] <= Distance(q, collection[id].embedding)

\* A query filtered to d1 returned results while the collection also held a
\* record of d2
C6_Witness ==
    /\ last.op = "get_context"
    /\ last.doc_id = Some(<<"d", "1">>)
    /\ last.results.documents # <<>>
    /\ ~NoRecords(collection, <<"d", "2">>)

Answered == last.op = "query_documents" /\ last.status = 200

\* C3: a /query request answered over a collection that is empty, or that
\* holds no record matching the where filter built from the request, has an
\* empty context, the refusal as its answer and sources_used 0, and the
\* generation service was not called for it.
C3_NoContextRefuses ==
    (Answered /\ Matching(collection, WhereFilter(last.doc_id)) = {})
    => /\ last.context = <<>>
       /\ last.answer = REFUSAL
       /\ last.sources_used = 0
       /\ last.calls = 0

\* A request filtered to d2 was answered over a collection that holds records
\* of d1 only, with a generation service that would have returned text
C3_Witness ==
    /\ Answered
    /\ last.doc_id = Some(<<"d", "2">>)
    /\ collection # <<>>
    /\ NoRecords(collection, <<"d", "2">>)
    /\ last.svc.text = Some(<<" ", "a", "\n">>)
    /\ last.answer = REFUSAL

\* C7: a /query request that retrieved a non-empty result set reports as
\* sources_used the number of chunks rendered in its context.
C7_SourcesUsedCountsChunks ==
    (Answered /\ last.retrieved # <<>>) => last.sources_used = Len(last.retrieved)

\* The rendering of one entry of the chunks list as a block of the context
BlockOfChunk(c) ==
    Block(c.text, [filename |-> c.filename, page_number |-> c.page_number],
          1 - c.relevance)

\* C8: in a result of get_context_with_metadata, total_chunks is the length
\* of chunks and the context is the blocks of chunks, in order, joined by the
\* separator.
C8_ContextMatchesChunks ==
    last.op = "get_context_with_metadata"
    => /\ last.total_chunks = Len(last.chunks)
       /\ last.context =
            Join(SEPARATOR, [i \in 1..Len(last.chunks) |-> BlockOfChunk(last.chunks[i])])

Generated == last.op \in {"generate_answer", "generate_answer_with_history"}

\* C9: for a non-blank context the generators return the error text when the
\* service call raises and the 'unable to generate' message when the service
\* returns no text, and the answer they return is never the empty string.
C9_AnswerNeverEmpty ==
    (Generated /\ ~IsBlank(last.context))
    => /\ last.svc.raises => last.answer = ERROR_PREFIX \o last.svc.msg
       /\ (~last.svc.raises /\ ~Truthy(last.svc.text)) => last.answer = UNABLE
       /\ last.answer # <<>>

\* C10: a generator call makes one call to the generation service when its
\* context is non-blank, whatever that call does, and none when the context
\* is empty or whitespace, in which case it returns the refusal.
C10_OneServiceCall ==
    Generated
    => /\ IsBlank(last.context) => last.calls = 0 /\ last.answer = REFUSAL
       /\ ~IsBlank(last.context) => last.calls = 1

\* The service raised on the one call made for a non-blank context
C10_Witness ==
    /\ last.op = "generate_answer"
    /\ ~IsBlank(last.context)
    /\ last.svc.raises
    /\ last.calls = 1
    /\ last.answer = ERROR_PREFIX \o <<"b">>

\* C11: delete_document_chunks never raises; it returns True exactly when the
\* storage carried the delete out, also for a document that has no record
\* (never ingested, or deleted by the call before), and the store is then left
\* as it was; it returns False exactly when the storage failed, so that the
\* flag tells a failure from 'no chunks found'.
C11_DeleteReportsByFlag ==
    last.op = "delete"
    => /\ ~last.raised
       /\ last.ret = ~last.storageFails
       /\ last.ret => NoRecords(collection, last.doc_id)
       /\ (last.ret /\ NoRecords(last.pre, last.doc_id)) => collection = last.pre
       /\ (NoRecords(last.pre, last.doc_id) /\ ~last.storageFails) => last.ret

\* A delete of d2 returned True on a non-empty store that held no record of
\* d2 (never ingested, or removed by the delete before) and left it as it was
C11_Witness ==
    /\ last.op = "delete"
    /\ last.doc_id = <<"d", "2">>
    /\ last.ret
    /\ last.pre # <<>>
    /\ collection = last.pre
    /\ \E e \in deleted : e.doc_id = <<"d", "2">> /\ e.removed = 0

Retrieved == last.op = "get_context"

\* C12: a query with n_results = k returns min(k, number of records the where
\* filter admits) items, never more than k, each a distinct admitted record
\* with its distance to the query embedding, in order of non-decreasing
\* distance; get_context renders the blocks in that order.
C12_TopKOrdered ==
    Retrieved
    => LET r == last.results
           q == embed_query(last.query)
           n == Len(r.ids)
           admitted == Matching(collection, WhereFilter(last.doc_id))
       IN  /\ n = Min(last.n_results, Cardinality(admitted))
           /\ n <= last.n_results
           /\ Len(r.documents) = n /\ Len(r.metadatas) = n /\ Len(r.distances) = n
           /\ \A i \in 1..n :
                  /\ r.ids[i] \in admitted
                  /\ r.documents[i] = collection[r.ids[i]].document
                  /\ r.distances[i] = Distance(q, collection[r.ids[i]].embedding)
           /\ \A i, j \in 1..n : i < j => r.ids[i] # r.ids[j]
           /\ \A i \in 1..(n - 1) : r.distances[i] <= r.distances[i + 1]
           /\ last.context =
                Join(SEPARATOR,
                     [i \in 1..n |-> Block(r.documents[i], r.metadatas[i], r.distances[i])])

\* A query for the 2 nearest of 3 stored records returned a nearer and a
\* farther record, in that order
C12_Witness ==
    /\ Retrieved
    /\ last.n_results = 2
    /\ last.doc_id = None
    /\ Cardinality(Ids(collection)) = 3
    /\ last.results.distances = <<0, 2>>

\* C13: save_chunks_to_db called with an empty chunk list returns 0 without
\* raising, makes no call to the embedding function and leaves the collection
\* as it was.
C13_EmptyListIsNoOp ==
    (last.op = "save" /\ last.chunks = <<>>)
    => /\ last.raised = "none"
       /\ last.ret = 0
       /\ last.embed_calls = 0
       /\ last.embedded = 0
       /\ collection = last.pre

\* An empty chunk list was saved over a store that held records
C13_Witness ==
    /\ last.op = "save"
    /\ last.chunks = <<>>
    /\ last.ret = 0
    /\ last.pre # <<>>

Chunked == last.op = "chunk_document"

\* The pages of the last chunk_document call and the chunks cut from page pg
PageOf(page_number) ==
    CHOOSE pg \in {last.pages_data[i] : i \in 1..Len(last.pages_data)} :
        pg.page_number = page_number

ChunksOfPage(page_number) ==
    SelectSeq(last.chunks, LAMBDA c : c.page_number = page_number)

\* sub occurs in s
Occurs(sub, s) == sub = <<>> \/ \E p \in 1..Len(s) : MatchAt(s, sub, p)

\* C15: the k-th chunk of a page has the identifier
\* '{doc_id}_{page_number}_{k-1}', so the index starts at 0 on every page and
\* grows by 1; the chunks come page by page in the order of the pages, each
\* with the number of a page of the input and a text cut from that page; no
\* two chunks of the call share an identifier.
C15_ChunkIdScheme ==
    Chunked
    => LET chunks == last.chunks
           n == Len(chunks)
           numbers == {last.pages_data[i].page_number : i \in 1..Len(last.pages_data)}
           IndexOf(k) == Cardinality({j \in 1..(k - 1) :
                                        chunks[j].page_number = chunks[k].page_number})
       IN  /\ \A k \in 1..n :
                  /\ chunks[k].page_number \in numbers
                  /\ chunks[k].page_number \in 1..MaxPage
                  /\ chunks[k].doc_id = last.doc_id
                  /\ chunks[k].chunk_id =
                        last.doc_id \o <<"_">> \o IntToStr(chunks[k].page_number)
                        \o <<"_">> \o IntToStr(IndexOf(k))
                  /\ Occurs(chunks[k].text, PageOf(chunks[k].page_number).text)
           /\ \A k \in 1..(n - 1) : chunks[k].page_number <= chunks[k + 1].page_number
           /\ \A j, k \in 1..n : j < k => chunks[j].chunk_id # chunks[k].chunk_id

\* Two pages were cut into two chunks each: the index went 0, 1 on page 1 and
\* started again at 0 on page 2
C15_Witness ==
    /\ Chunked
    /\ Len(last.chunks) = 4
    /\ last.chunks[2].chunk_id = <<"d", "1", "_", "1", "_", "1">>
    /\ last.chunks[3].chunk_id = <<"d", "1", "_", "2", "_", "0">>
    /\ last.chunks[4].chunk_id = <<"d", "1", "_", "2", "_", "1">>

\* The texts of the chunks cut from page pg
TextsOfPage(pg) ==
    LET cs == ChunksOfPage(pg.page_number)
    IN  [i \in 1..Len(cs) |-> cs[i].text]

\* C16: a page whose text is shorter than chunk_size gives one chunk, whose
\* text is the page text stripped; a page whose text is empty once stripped
\* gives no chunk, whatever its length.
C16_ShortPageOneChunk ==
    Chunked
    => \A i \in 1..Len(last.pages_data) :
          LET pg == last.pages_data[i]
          IN  /\ (Len(pg.text) < last.chunk_size /\ Strip(pg.text) # <<>>)
                 => TextsOfPage(pg) = <<Strip(pg.text)>>
              /\ Strip(pg.text) = <<>> => TextsOfPage(pg) = <<>>

\* C17: every chunk of a chunk_document call has at most chunk_size
\* characters, for every page text: the last separator cuts between any two
\* characters, so no piece is left that cannot be split.
C17_ChunkWithinSize ==
    Chunked
    => \A k \in 1..Len(last.chunks) :
          /\ Len(last.chunks[k].text) <= last.chunk_size
          /\ Len(last.chunks[k].text) >= 1

\* A word of five letters, with no separator but the empty one in it, was cut
\* into four overlapping chunks of chunk_size 2
C17_Witness ==
    /\ Chunked
    /\ last.pages_data =
         <<[text |-> <<"a", "a", "a", "a", "a">>, page_number |-> 1]>>
    /\ last.chunk_size = 2
    /\ last.chunk_overlap = 1
    /\ Len(last.chunks) = 4
    /\ \A k \in 1..4 : last.chunks[k].text = <<"a", "a">>

Uploaded == last.op = "upload"

\* The upload is an input error: the file name does not end in .pdf, or the
\* file was read and none of its pages has text
InputError ==
    \/ ~EndsWith(Lower(last.filename), PDF_SUFFIX)
    \/ ~last.readFails /\ extract_pdf_pages(last.raw) = <<>>

\* C14: an upload that is an input error is answered 400, with no call to the
\* embedding function and none to collection.add, and the collection is left
\* as it was.
C14_RejectedUploadTouchesNothing ==
    (Uploaded /\ InputError)
    => /\ last.status = 400
       /\ last.embed_calls = 0
       /\ last.add_calls = 0
       /\ collection = last.pre

\* A file named f.pdf whose pages have no text was rejected over a store that
\* holds records
C14_Witness ==
    /\ Uploaded
    /\ last.filename = <<"f", ".", "p", "d", "f">>
    /\ last.raw = <<Some(<<" ">>), None>>
    /\ last.indexed_to_kb
    /\ last.status = 400
    /\ collection # <<>>

\* "[Source: {filename}, Page {page_number}]"
Citation(metadata) ==
    <<"[", "S", "o", "u", "r", "c", "e", ":", " ">> \o metadata.filename
    \o <<",", " ", "P", "a", "g", "e", " ">> \o IntToStr(metadata.page_number)
    \o <<"]">>

\* The length of the block rendered for the i-th result of the last retrieval
BlockLen(i) ==
    Len(Block(last.results.documents[i], last.results.metadatas[i],
              last.results.distances[i]))

\* Where the i-th block starts in a string of blocks joined by the separator
RECURSIVE BlockStart(_)
BlockStart(i) ==
    IF i = 1 THEN 1 ELSE BlockStart(i - 1) + BlockLen(i - 1) + Len(SEPARATOR)

\* C18: for a result set of n >= 1 items the context is n blocks in the order
\* of the results with the separator between neighbours and nothing else;
\* the i-th block starts with the citation of the i-th result's filename and
\* page number, goes on to the end of that line, and has the i-th result's
\* text as it is stored on the lines after it; for an empty result set the
\* context is the empty string.
C18_ContextIsJoinedBlocks ==
    Retrieved
    => LET r == last.results
           n == Len(r.documents)
           ctx == last.context
           End(i) == BlockStart(i) + BlockLen(i) - 1
           TextStart(i) == End(i) - Len(r.documents[i]) + 1
       IN  /\ n = 0 => ctx = <<>>
           /\ n > 0 =>
                /\ Len(ctx) = End(n)
                /\ \A i \in 1..n :
                       /\ MatchAt(ctx, Citation(r.metadatas[i]), BlockStart(i))
                       /\ SubSeq(ctx, TextStart(i), End(i)) = r.documents[i]
                       /\ ctx[TextStart(i) - 1] = "\n"
                       /\ \A p \in BlockStart(i)..(TextStart(i) - 2) : ctx[p] # "\n"
                       /\ r.documents[i] = collection[r.ids[i]].document
                       /\ r.metadatas[i] = collection[r.ids[i]].metadata
                /\ \A i \in 1..(n - 1) : MatchAt(ctx, SEPARATOR, End(i) + 1)

\* Three results were rendered, the second of them a chunk whose text holds
\* the dashes of the separator
C18_Witness ==
    /\ Retrieved
    /\ Len(last.results.documents) = 3
    /\ last.results.documents[2] = <<"a", "-", "-", "-", "b">>
    /\ last.results.metadatas[1].filename # last.results.metadatas[3].filename
    /\ last.context # <<>>

\* C19: every relevance value the retriever renders in a header or returns
\* in a chunk record lies between 0 and 1.
C19_RelevanceWithinUnit ==
    /\ Retrieved
       => \A i \in 1..Len(last.results.distances) :
             /\ 1 - last.results.distances[i] >= 0
             /\ 1 - last.results.distances[i] <= 1
    /\ last.op = "get_context_with_metadata"
       => \A i \in 1..Len(last.chunks) :
             last.chunks[i].relevance >= 0 /\ last.chunks[i].relevance <= 1

\* C20: a query_collection call whose filter_doc_id is the empty string
\* returns what the call with filter_doc_id = None returns on the same
\* collection, the nearest records of all documents, and get_context renders
\* the same context for both.
C20_EmptyFilterIsNoFilter ==
    (Retrieved /\ last.doc_id = Some(<<>>))
    => /\ last.results =
            query_collection(collection, last.query, last.n_results, None)
       /\ last.results =
            CollectionQuery(collection, embed_query(last.query), last.n_results, None)
       /\ Len(last.results.ids) = Min(last.n_results, Cardinality(Ids(collection)))
       /\ last.context = get_context(collection, last.query, None, last.n_results)

\* A query with the empty string as its filter returned records of d1 and
\* of d2
C20_Witness ==
    /\ Retrieved
    /\ last.doc_id = Some(<<>>)
    /\ \E i, j \in 1..Len(last.results.metadatas) :
          /\ last.results.metadatas[i].doc_id = <<"d", "1">>
          /\ last.results.metadatas[j].doc_id = <<"d", "2">>

====
